---- MODULE Spec2Model ----
(***************************************************************************)
(* Keypad input layer of the Cardputer ADV: the TCA8418 register driver    *)
(* (tca8418.py) and the key resolver (Keys, _keys.py), together with the   *)
(* keypad chip they talk to over the I2C bus.                              *)
(*                                                                         *)
(* The driver and the resolver run on one thread; the chip is a second     *)
(* process.  Every bus transaction is one atomic step, so the chip may act *)
(* between any two register accesses of the driver.                        *)
(***************************************************************************)
EXTENDS Integers, Sequences, FiniteSets, TLC

(* ------------------------------ bounds --------------------------------- *)
\* number of key events the chip produces in one behaviour
MaxEvents == 3
\* number of events the chip buffers before it drops new ones
MaxFifo == 3
\* longest list handed to a function checked on its own
MaxList == 2

(* ---------------------------- constants -------------------------------- *)
KC_SHIFT == 7
KC_FN == 3

REG_CFG == 1
REG_INT_STAT == 2
REG_KEY_LCK_EC == 3
REG_KEY_STAT == 4
REG_KP_ML_SM == 14
REG_KP_GPIO1 == 29
REG_KP_GPIO2 == 30
REG_KP_GPIO3 == 31

\* The symbol of key 1 in KEYMAP is the one-character string holding a grave
\* accent (U+0060); a string of this notation cannot contain that character,
\* so the symbol is written by its name.
GraveAccent == "GRAVE ACCENT"

KEYMAP ==
  (1 :> GraveAccent) @@ (5 :> "1") @@ (11 :> "2") @@ (15 :> "3") @@ (21 :> "4") @@
  (25 :> "5") @@ (31 :> "6") @@ (35 :> "7") @@ (41 :> "8") @@ (45 :> "9") @@
  (51 :> "0") @@ (55 :> "-") @@ (61 :> "=") @@ (65 :> "BSPC") @@
  (2 :> "TAB") @@ (6 :> "q") @@ (12 :> "w") @@ (16 :> "e") @@ (22 :> "r") @@
  (26 :> "t") @@ (32 :> "y") @@ (36 :> "u") @@ (42 :> "i") @@ (46 :> "o") @@
  (52 :> "p") @@ (56 :> "[") @@ (62 :> "]") @@ (66 :> "\\") @@
  (3 :> "FN") @@ (7 :> "SHIFT") @@ (13 :> "a") @@ (17 :> "s") @@ (23 :> "d") @@
  (27 :> "f") @@ (33 :> "g") @@ (37 :> "h") @@ (43 :> "j") @@ (47 :> "k") @@
  (53 :> "l") @@ (57 :> ";") @@ (63 :> "'") @@ (67 :> "ENT") @@
  (4 :> "CTL") @@ (8 :> "OPT") @@ (14 :> "ALT") @@ (18 :> "z") @@ (24 :> "x") @@
  (28 :> "c") @@ (34 :> "v") @@ (38 :> "b") @@ (44 :> "n") @@ (48 :> "m") @@
  (54 :> ",") @@ (58 :> ".") @@ (64 :> "/") @@ (68 :> "SPC")

KEYMAP_SHIFT ==
  (1 :> "~") @@ (5 :> "!") @@ (11 :> "@") @@ (15 :> "#") @@ (21 :> "$") @@
  (25 :> "%") @@ (31 :> "^") @@ (35 :> "&") @@ (41 :> "*") @@ (45 :> "(") @@
  (51 :> ")") @@ (55 :> "_") @@ (61 :> "+") @@ (65 :> "BSPC") @@
  (2 :> "TAB") @@ (6 :> "Q") @@ (12 :> "W") @@ (16 :> "E") @@ (22 :> "R") @@
  (26 :> "T") @@ (32 :> "Y") @@ (36 :> "U") @@ (42 :> "I") @@ (46 :> "O") @@
  (52 :> "P") @@ (56 :> "{") @@ (62 :> "}") @@ (66 :> "|") @@
  (3 :> "FN") @@ (7 :> "SHIFT") @@ (13 :> "A") @@ (17 :> "S") @@ (23 :> "D") @@
  (27 :> "F") @@ (33 :> "G") @@ (37 :> "H") @@ (43 :> "J") @@ (47 :> "K") @@
  (53 :> "L") @@ (57 :> ":") @@ (63 :> "\"") @@ (67 :> "ENT") @@
  (4 :> "CTL") @@ (8 :> "OPT") @@ (14 :> "ALT") @@ (18 :> "Z") @@ (24 :> "X") @@
  (28 :> "C") @@ (34 :> "V") @@ (38 :> "B") @@ (44 :> "N") @@ (48 :> "M") @@
  (54 :> "<") @@ (58 :> ">") @@ (64 :> "?") @@ (68 :> "SPC")

\* the Fn table without an entry for the '1' key
KEYMAP_FN_Without5 == [c \in (DOMAIN KEYMAP) \ {5} |-> KEYMAP[c]]

KEYMAP_FN ==
  (1 :> "ESC") @@ (5 :> "F1") @@ (11 :> "F2") @@ (15 :> "F3") @@ (21 :> "F4") @@
  (25 :> "F5") @@ (31 :> "F6") @@ (35 :> "F7") @@ (41 :> "F8") @@ (45 :> "F9") @@
  (51 :> "F10") @@ (55 :> "_") @@ (61 :> "=") @@ (65 :> "DEL") @@
  (2 :> "TAB") @@ (6 :> "q") @@ (12 :> "w") @@ (16 :> "e") @@ (22 :> "r") @@
  (26 :> "t") @@ (32 :> "y") @@ (36 :> "u") @@ (42 :> "i") @@ (46 :> "o") @@
  (52 :> "p") @@ (56 :> "[") @@ (62 :> "]") @@ (66 :> "\\") @@
  (3 :> "FN") @@ (7 :> "SHIFT") @@ (13 :> "a") @@ (17 :> "s") @@ (23 :> "d") @@
  (27 :> "f") @@ (33 :> "g") @@ (37 :> "h") @@ (43 :> "j") @@ (47 :> "k") @@
  (53 :> "l") @@ (57 :> "UP") @@ (63 :> "'") @@ (67 :> "ENT") @@
  (4 :> "CTL") @@ (8 :> "OPT") @@ (14 :> "ALT") @@ (18 :> "z") @@ (24 :> "x") @@
  (28 :> "c") @@ (34 :> "v") @@ (38 :> "b") @@ (44 :> "n") @@ (48 :> "m") @@
  (54 :> "LEFT") @@ (58 :> "DOWN") @@ (64 :> "RIGHT") @@ (68 :> "SPC")

\* Keys.aux_action
aux_action == "G0"

(* ------------------------- the chip's key events ------------------------ *)
\* The codes the chip delivers here: 0 (in no table), the Fn and Shift
\* modifiers, and 5, whose symbol differs in each of the three tables.
SampleCodes == {0, KC_FN, 5, KC_SHIFT}

\* Raw FIFO bytes: bit 7 is the press flag, bits 6..0 the code.
\* Every code can be pressed; codes 0 and 5 can also be released.
RawBytes == {c + 128 : c \in SampleCodes} \cup {0, 5}

(* ------------------------------ helpers -------------------------------- *)
Range(s) == {s[i] : i \in 1..Len(s)}

\* list.index: the position of the first occurrence of x in s
FirstIndex(s, x) == CHOOSE i \in 1..Len(s) : s[i] = x /\ \A j \in 1..(i - 1) : s[j] # x

\* list.remove: s without the first occurrence of x
ListRemove(s, x) ==
  LET i == FirstIndex(s, x)
  IN  SubSeq(s, 1, i - 1) \o SubSeq(s, i + 1, Len(s))

\* read_key_event's decoding of a popped byte
DecodeCode(b) == b % 128

\* is_press = bool(key_event & 0x80) read from bit 6 instead
DecodePressBit6(b) == (b \div 64) % 2 = 1

DecodePress(b) == (b \div 128) % 2 = 1

\* read_event_count's masking of the event-count register
CountMask(v) == v % 16

\* scan without its "not in" test before the append
ScanApplyNoTest(buf, key_code, is_press) ==
  IF is_press
    THEN Append(buf, key_code)
    ELSE IF key_code \in Range(buf) THEN ListRemove(buf, key_code) ELSE buf

\* Keys.scan: apply (key_code, is_press) to the held-key list
ScanApply(buf, key_code, is_press) ==
  IF is_press
    THEN IF key_code \notin Range(buf) THEN Append(buf, key_code) ELSE buf
    ELSE IF key_code \in Range(buf) THEN ListRemove(buf, key_code) ELSE buf

\* the layer test with the Shift branch before the Fn branch
ActiveTableShiftFirst(buf, ffn, fshift) ==
  IF KC_SHIFT \in Range(buf) \/ fshift THEN KEYMAP_SHIFT
  ELSE IF KC_FN \in Range(buf) \/ ffn THEN KEYMAP_FN
  ELSE KEYMAP

\* The table get_pressed_keys indexes: KEYMAP_FN, else KEYMAP_SHIFT, else KEYMAP
ActiveTable(buf, ffn, fshift) ==
  IF KC_FN \in Range(buf) \/ ffn THEN KEYMAP_FN
  ELSE IF KC_SHIFT \in Range(buf) \/ fshift THEN KEYMAP_SHIFT
  ELSE KEYMAP

\* The codes of buf before the first one that table has no entry for
RECURSIVE MappedPrefix(_, _)
MappedPrefix(buf, table) ==
  IF buf = <<>> \/ Head(buf) \notin DOMAIN table THEN <<>>
  ELSE <<Head(buf)>> \o MappedPrefix(Tail(buf), table)

\* The loop "for keycode in buf: key_state.append(table[keycode])"; it
\* stops with a KeyError at the first code the table lacks.
AppendSymbols(ks, buf, table) ==
  LET p == MappedPrefix(buf, table)
  IN  ks \o [i \in 1..Len(p) |-> table[p[i]]]


\* a drain loop that stops one event early
LoopContinuesAboveOne(count) == count > 1

\* The condition of "while event_count:" in get_pressed_keys
LoopContinues(count) == count # 0

\* read_key_event without its test of the event flag
EventFlagIgnored(irq) == TRUE

\* read_key_event: "(interrupt & 0x01) != 0"
EventFlagSet(irq) == irq % 2 = 1

\* read_key_event: "if event_count == 1: self.clear_interrupt()"
ClearsAfterPop(count) == count = 1

\* a resolution that keeps the symbols of the last poll
KeyStateKept(old) == old

\* get_pressed_keys: "self.key_state = []"
KeyStateReset(old) == <<>>

\* the pin test with the wrong polarity (the pin is active low)
AuxPrefixActiveHigh(pin) == IF pin = 1 THEN <<aux_action>> ELSE <<>>

\* get_pressed_keys: key_state after "if self.G0.value() == 0: append('G0')"
AuxPrefix(pin) == IF pin = 0 THEN <<aux_action>> ELSE <<>>

\* Keys.ext_dir_dict
ext_dir_dict_swapped ==
  (";" :> "DOWN") @@ ("," :> "LEFT") @@ ("." :> "UP") @@ ("/" :> "RIGHT") @@
  (GraveAccent :> "ESC")

ext_dir_dict ==
  (";" :> "UP") @@ ("," :> "LEFT") @@ ("." :> "DOWN") @@ ("/" :> "RIGHT") @@
  (GraveAccent :> "ESC")

\* Keys.ext_dir_keys: every element that is a key of ext_dir_dict is replaced
\* in place by its entry; the list itself is returned
ExtDirKeys(keylist) ==
  [idx \in 1..Len(keylist) |->
     IF keylist[idx] \in DOMAIN ext_dir_dict THEN ext_dir_dict[keylist[idx]]
     ELSE keylist[idx]]

\* init_device with the matrix scan enabled first
InitWritesScanFirst ==
  << <<REG_KP_ML_SM, 1>>, <<REG_INT_STAT, 255>>, <<REG_CFG, 17>>,
     <<REG_KP_GPIO1, 255>>, <<REG_KP_GPIO2, 255>>, <<REG_KP_GPIO3, 15>> >>

\* init_device's register writes, in program order
InitWrites ==
  << <<REG_INT_STAT, 255>>, <<REG_CFG, 17>>, <<REG_KP_GPIO1, 255>>,
     <<REG_KP_GPIO2, 255>>, <<REG_KP_GPIO3, 15>>, <<REG_KP_ML_SM, 1>> >>

(* ------------------------------- state --------------------------------- *)
VARIABLES
  pc,               \* position of the single program thread
  hasKeypad,        \* Keys.keypad was assigned (the TCA8418 constructor returned)
  key_list_buffer,  \* Keys._key_list_buffer, the held-key list
  key_state,        \* Keys.key_state, the last resolved symbol list
  force_fn,         \* arguments of the running get_pressed_keys call
  force_shift,
  poll_count,       \* get_pressed_keys' local event_count
  interrupt,        \* read_key_event's local interrupt
  event_count,      \* read_key_event's local event_count
  key_event,        \* read_key_event's local key_event
  outcome,          \* how the last call ended
  chipPresent,      \* the chip answers at address 0x34
  scanOn,           \* chip: matrix scanning is enabled
  fifo,             \* chip: the key event FIFO, oldest first
  intStat,          \* chip: the interrupt status register
  wlog,             \* chip: registers written during bring-up, in order
  G0,               \* level of the auxiliary pin at its last read (0 = pressed)
  nEvents,          \* history: events produced by the chip so far
  netPressed,       \* history: codes whose last event received by scan was a press
  seen,             \* history: FIFO at the start of this poll, then arrivals
  drained,          \* history: events scan received during this poll
  exitSeen,         \* history: Len(seen) when the drain loop ended
  arrived,          \* history: an event arrived during this poll
  lastArgs,         \* history: <<force_fn, force_shift>> of the last call, if it
                    \* returned and the FIFO has been empty since
  repeat,           \* history: this call (at idle: the last call) had the
                    \* arguments of lastArgs and found the FIFO empty, as it had
                    \* been since that call returned
  held0,            \* history: the held-key list when this poll began
  glitch2,          \* history: "once" when the first scan of this poll got no
                    \* event at count 2, "again" when a later scan got none too
  pureOp,           \* the function applied to pureIn ("none" while Keys runs)
  pureIn,           \* argument of a function checked on its own
  pureOut           \* its result

progVars == <<pc, hasKeypad, key_list_buffer, key_state, force_fn, force_shift,
              poll_count, interrupt, event_count, key_event, outcome>>
chipVars == <<chipPresent, scanOn, fifo, intStat, wlog, G0>>
callHist == <<lastArgs, repeat, held0>>
scanHist == <<glitch2>>
pureVars == <<pureOp, pureIn, pureOut>>
histVars == <<nEvents, netPressed, seen, drained, exitSeen, arrived, callHist, scanHist>>
vars == <<progVars, chipVars, histVars, pureVars>>

PollPcs == {"gpk_count", "rke_int", "rke_ec", "rke_pop", "rke_clr", "gpk_resolve"}

\* Keys.__init__ up to the bus probe.  The chip keeps its power over a
\* restart of the program, so it may already be scanning.
Init ==
  /\ pc = "ctor"
  /\ hasKeypad = FALSE
  /\ key_list_buffer = <<>>
  /\ key_state = <<>>
  /\ force_fn = FALSE
  /\ force_shift = FALSE
  /\ poll_count = 0
  /\ interrupt = 0
  /\ event_count = 0
  /\ key_event = 0
  /\ outcome = "none"
  /\ chipPresent \in BOOLEAN
  /\ scanOn \in BOOLEAN
  /\ (scanOn => chipPresent)
  /\ fifo = <<>>
  /\ intStat = 0
  /\ wlog = <<>>
  /\ G0 = 1
  /\ nEvents = 0
  /\ netPressed = {}
  /\ seen = <<>>
  /\ drained = <<>>
  /\ exitSeen = 0
  /\ arrived = FALSE
  /\ lastArgs = <<FALSE, FALSE>>
  /\ repeat = FALSE
  /\ held0 = <<>>
  /\ glitch2 = "no"
  /\ pureOp = "none"
  /\ pureIn = <<>>
  /\ pureOut = <<>>

(* ------------------------------ the chip ------------------------------- *)
\* A key changes state: the chip queues the event and raises K_INT.
ChipKeyEvent ==
  /\ scanOn
  /\ nEvents < MaxEvents
  /\ Len(fifo) < MaxFifo
  /\ \E b \in RawBytes :
       /\ fifo' = Append(fifo, b)
       /\ seen' = IF pc \in PollPcs THEN Append(seen, b) ELSE seen
  /\ intStat' = 1
  /\ nEvents' = nEvents + 1
  /\ arrived' = (arrived \/ pc \in PollPcs)
  /\ lastArgs' = <<FALSE, FALSE>>
  /\ repeat' = (repeat /\ pc = "gpk_resolve")
  /\ UNCHANGED <<progVars, chipPresent, scanOn, wlog, G0, netPressed, drained, exitSeen,
                 held0, scanHist, pureVars>>

(* --------------------------- Keys.__init__ ----------------------------- *)
\* TCA8418.__init__: "if self.address not in self.i2c.scan(): raise OSError";
\* Keys.__init__ catches it, prints, and goes on without self.keypad.
CtorProbe ==
  /\ pc = "ctor"
  /\ pc' = IF chipPresent THEN "init_device" ELSE "idle"
  /\ UNCHANGED <<hasKeypad, key_list_buffer, key_state, force_fn, force_shift,
                 poll_count, interrupt, event_count, key_event, outcome,
                 chipVars, histVars, pureVars>>

\* The chip's reaction to a register write: writing INT_STAT clears its bits
\* (clear_interrupt: "Writing 0xFF ensures all bits are cleared"), whatever the
\* FIFO holds; writing KP_ML_SM starts the matrix scan.
ChipWrite(reg) ==
  /\ intStat' = IF reg = REG_INT_STAT THEN 0 ELSE intStat
  /\ scanOn' = IF reg = REG_KP_ML_SM THEN TRUE ELSE scanOn

\* init_device: the next register write; a bus error ends the constructor
\* of the driver and Keys.__init__ catches it.
InitWrite ==
  /\ pc = "init_device"
  /\ \E ok \in BOOLEAN :
       IF ok
         THEN /\ ChipWrite(InitWrites[Len(wlog) + 1][1])
              /\ wlog' = Append(wlog, InitWrites[Len(wlog) + 1])
              /\ pc' = IF Len(wlog) + 1 = Len(InitWrites) THEN "idle" ELSE "init_device"
              /\ hasKeypad' = (Len(wlog) + 1 = Len(InitWrites))
         ELSE /\ pc' = "idle"
              /\ UNCHANGED <<hasKeypad, intStat, scanOn, wlog>>
  /\ UNCHANGED <<key_list_buffer, key_state, force_fn, force_shift, poll_count,
                 interrupt, event_count, key_event, outcome,
                 chipPresent, fifo, G0, histVars, pureVars>>

(* ------------------------- get_pressed_keys ---------------------------- *)
\* The running call ends: its locals go away.
EndCall(how) ==
  /\ pc' = "idle"
  /\ outcome' = how
  /\ force_fn' = FALSE
  /\ force_shift' = FALSE
  /\ poll_count' = 0
  /\ interrupt' = 0
  /\ event_count' = 0
  /\ key_event' = 0
  /\ seen' = <<>>
  /\ drained' = <<>>
  /\ exitSeen' = 0
  /\ arrived' = FALSE
  /\ lastArgs' = IF how = "returned" /\ fifo = <<>>
                   THEN <<force_fn, force_shift>> ELSE <<FALSE, FALSE>>
  /\ repeat' = (repeat /\ how = "returned")
  /\ held0' = <<>>
  /\ glitch2' = "no"

\* A bus transaction fails: readfrom_mem / writeto_mem raises OSError, which
\* nothing between the driver and the caller of get_pressed_keys catches.
BusError ==
  /\ EndCall("OSError")
  /\ UNCHANGED <<hasKeypad, key_list_buffer, key_state, chipVars, nEvents, netPressed,
                 pureVars>>

\* The host calls get_pressed_keys(force_fn=ffn, force_shift=fshift).
\* Without self.keypad the first statement raises AttributeError.
CallGetPressedKeys ==
  /\ pc = "idle"
  /\ \E ffn \in BOOLEAN, fshift \in BOOLEAN :
       IF hasKeypad
         THEN /\ pc' = "gpk_count"
              /\ force_fn' = ffn
              /\ force_shift' = fshift
              /\ outcome' = "none"
              /\ seen' = fifo
              /\ repeat' = (outcome = "returned" /\ fifo = <<>> /\ lastArgs = <<ffn, fshift>>)
              /\ lastArgs' = <<FALSE, FALSE>>
              /\ held0' = key_list_buffer
         ELSE /\ pc' = "idle"
              /\ outcome' = "AttributeError"
              /\ UNCHANGED <<force_fn, force_shift, seen, callHist>>
  /\ UNCHANGED <<hasKeypad, key_list_buffer, key_state, poll_count, interrupt,
                 event_count, key_event, chipVars, nEvents, netPressed, drained,
                 exitSeen, arrived, scanHist, pureVars>>

\* read_event_count, then the test of "while event_count:"
PollCount ==
  /\ pc = "gpk_count"
  /\ \/ /\ poll_count' = CountMask(Len(fifo))
        /\ IF LoopContinues(poll_count')
             THEN /\ pc' = "rke_int"
                  /\ UNCHANGED exitSeen
             ELSE /\ pc' = "gpk_resolve"
                  /\ exitSeen' = Len(seen)
        /\ UNCHANGED <<hasKeypad, key_list_buffer, key_state, force_fn, force_shift,
                       interrupt, event_count, key_event, outcome, chipVars,
                       nEvents, netPressed, seen, drained, arrived, callHist,
                       scanHist, pureVars>>
     \/ BusError

\* get_pressed_keys: where the drain loop goes after scan() returns; the loop
\* body has no break, so the count is read again whether or not scan() got
\* an event
ScanNextGivesUp(real) == IF real THEN "gpk_count" ELSE "gpk_resolve"

ScanNext(real) == "gpk_count"

\* scan, after read_key_event returned (key_code, is_press): update the held
\* list and go back to read_event_count.  real tells a popped event from the
\* (0, 0) that read_key_event returns when it has none.
ScanReturn(key_code, is_press, real, byte) ==
  /\ key_list_buffer' = ScanApply(key_list_buffer, key_code, is_press)
  /\ netPressed' = IF ~real THEN netPressed
                   ELSE IF is_press THEN netPressed \cup {key_code}
                   ELSE netPressed \ {key_code}
  /\ drained' = IF real THEN Append(drained, byte) ELSE drained
  /\ glitch2' = IF real THEN glitch2
                ELSE IF glitch2 = "no" /\ drained = <<>> /\ seen = fifo /\ poll_count = 2
                  THEN "once"
                ELSE IF glitch2 = "no" THEN "no"
                ELSE "again"
  /\ pc' = ScanNext(real)
  /\ interrupt' = 0
  /\ event_count' = 0
  /\ key_event' = 0

\* read_key_event: read INT_STAT
ReadIntStat ==
  /\ pc = "rke_int"
  /\ \/ /\ IF EventFlagSet(intStat)
             THEN /\ pc' = "rke_ec"
                  /\ interrupt' = intStat
                  /\ UNCHANGED <<key_list_buffer, event_count, key_event, netPressed, drained,
                                 scanHist>>
             ELSE ScanReturn(0, FALSE, FALSE, 0)
        /\ UNCHANGED <<hasKeypad, key_state, force_fn, force_shift, poll_count,
                       outcome, chipVars, nEvents, seen, exitSeen, arrived,
                       callHist, pureVars>>
     \/ BusError

\* read_key_event: read the event count
ReadEventCount ==
  /\ pc = "rke_ec"
  /\ \/ /\ IF CountMask(Len(fifo)) > 0
             THEN /\ pc' = "rke_pop"
                  /\ event_count' = CountMask(Len(fifo))
                  /\ UNCHANGED <<key_list_buffer, interrupt, key_event, netPressed, drained,
                                 scanHist>>
             ELSE ScanReturn(0, FALSE, FALSE, 0)
        /\ UNCHANGED <<hasKeypad, key_state, force_fn, force_shift, poll_count,
                       outcome, chipVars, nEvents, seen, exitSeen, arrived,
                       callHist, pureVars>>
     \/ BusError

\* read_key_event: read KEY_STAT, which pops the oldest event of the FIFO
\* (an empty FIFO reads as 0)
ReadKeyStat ==
  /\ pc = "rke_pop"
  /\ \/ /\ LET byte == IF fifo = <<>> THEN 0 ELSE Head(fifo)
           IN  /\ fifo' = IF fifo = <<>> THEN fifo ELSE Tail(fifo)
               /\ IF ClearsAfterPop(event_count)
                    THEN /\ pc' = "rke_clr"
                         /\ key_event' = byte
                         /\ UNCHANGED <<key_list_buffer, interrupt, event_count,
                                        netPressed, drained, scanHist>>
                    ELSE ScanReturn(DecodeCode(byte), DecodePress(byte), TRUE, byte)
        /\ UNCHANGED <<hasKeypad, key_state, force_fn, force_shift, poll_count,
                       outcome, chipPresent, scanOn, intStat, wlog, G0,
                       nEvents, seen, exitSeen, arrived, callHist, pureVars>>
     \/ BusError

\* clear_interrupt, called by read_key_event: write 0xFF to INT_STAT
ClearInterrupt ==
  /\ pc = "rke_clr"
  /\ \/ /\ ChipWrite(REG_INT_STAT)
        /\ ScanReturn(DecodeCode(key_event), DecodePress(key_event), TRUE, key_event)
        /\ UNCHANGED <<hasKeypad, key_state, force_fn, force_shift, poll_count,
                       outcome, chipPresent, fifo, wlog, G0,
                       nEvents, seen, exitSeen, arrived, callHist, pureVars>>
     \/ BusError

\* get_pressed_keys from "self.key_state = []" to its return; the pin is
\* an input, read once by self.G0.value()
Resolve ==
  /\ pc = "gpk_resolve"
  /\ G0' \in {0, 1}
  /\ LET ks0 == KeyStateReset(key_state) \o AuxPrefix(G0')
         table == ActiveTable(key_list_buffer, force_fn, force_shift)
     IN  IF key_list_buffer = <<>> /\ ks0 = <<>>
           THEN /\ key_state' = ks0
                /\ EndCall("returned")
           ELSE /\ key_state' = AppendSymbols(ks0, key_list_buffer, table)
                /\ EndCall(IF Range(key_list_buffer) \subseteq DOMAIN table
                             THEN "returned" ELSE "KeyError")
  /\ UNCHANGED <<hasKeypad, key_list_buffer, chipPresent, scanOn, fifo, intStat,
                 wlog, nEvents, netPressed, pureVars>>

(* -------------------------- specifications ----------------------------- *)
Program ==
  \/ CtorProbe
  \/ InitWrite
  \/ PollCount
  \/ ReadIntStat
  \/ ReadEventCount
  \/ ReadKeyStat
  \/ ClearInterrupt
  \/ Resolve

Next ==
  \/ ChipKeyEvent
  \/ CallGetPressedKeys
  \/ Program

Spec == Init /\ [][Next]_vars

\* A call that has started keeps running: no statement of the program blocks.
FairSpec == Spec /\ WF_vars(Program)

(* ------------------- functions checked on their own ------------------- *)
\* codes of the keys that ext_dir_dict names, with Fn and a digit
DirCodes == {1, 57, 54, KC_FN, 5}

\* symbols a caller may hand to ext_dir_keys
DirSymbols == {";", "/", GraveAccent, "a", "UP"}

\* the lists of at most n elements of S
SeqsUpTo(S, n) == UNION {[1..k -> S] : k \in 0..n}

\* A resolver whose drain loop has just ended with some keys held; the chip
\* may have queued one more event since.
PureInit ==
  /\ pc = "gpk_resolve"
  /\ hasKeypad = TRUE
  /\ key_list_buffer \in {l \in SeqsUpTo(DirCodes, MaxList) :
                            Cardinality(Range(l)) = Len(l)}
  /\ key_state = <<>>
  /\ force_fn \in BOOLEAN
  /\ force_shift \in BOOLEAN
  /\ poll_count = 0
  /\ interrupt = 0
  /\ event_count = 0
  /\ key_event = 0
  /\ outcome = "none"
  /\ chipPresent = TRUE
  /\ scanOn = TRUE
  /\ fifo \in {<<>>, <<133>>}
  /\ intStat = Len(fifo)
  /\ wlog = InitWrites
  /\ G0 = 1
  /\ nEvents = MaxEvents
  /\ netPressed = Range(key_list_buffer)
  /\ seen = <<>>
  /\ drained = <<>>
  /\ exitSeen = 0
  /\ arrived = FALSE
  /\ lastArgs = <<FALSE, FALSE>>
  /\ repeat = FALSE
  /\ held0 = key_list_buffer
  /\ glitch2 = "no"
  /\ pureOp = "none"
  /\ pureIn = <<>>
  /\ pureOut = <<>>

\* ext_dir_keys(keylist), called with the list get_pressed_keys returned
\* (which is self.key_state itself) or with a list of the caller's own
CallExtDirKeys ==
  /\ pureOp = "none"
  /\ \/ /\ pc = "idle" /\ outcome = "returned"
        /\ pureIn' = key_state
        /\ pureOut' = ExtDirKeys(key_state)
        /\ key_state' = ExtDirKeys(key_state)
     \/ /\ \E keylist \in SeqsUpTo(DirSymbols, MaxList) :
             /\ pureIn' = keylist
             /\ pureOut' = ExtDirKeys(keylist)
        /\ UNCHANGED key_state
  /\ pureOp' = "ext_dir_keys"
  /\ UNCHANGED <<pc, hasKeypad, key_list_buffer, force_fn, force_shift, poll_count,
                 interrupt, event_count, key_event, outcome, chipVars, histVars>>

\* ext_dir_keys called again with the list it returned
CallExtDirKeysAgain ==
  /\ pureOp = "ext_dir_keys"
  /\ pureOp' = "ext_dir_keys twice"
  /\ pureOut' = ExtDirKeys(pureOut)
  /\ key_state' = IF key_state = pureOut THEN ExtDirKeys(key_state) ELSE key_state
  /\ UNCHANGED <<pc, hasKeypad, key_list_buffer, force_fn, force_shift, poll_count,
                 interrupt, event_count, key_event, outcome, chipVars, histVars, pureIn>>

\* read_key_event: is_press and key_code of a byte b read from KEY_STAT
DecodeKeyEvent ==
  /\ pureOp = "none"
  /\ \E b \in 0..255 :
       /\ pureIn' = <<b>>
       /\ pureOut' = <<DecodeCode(b), DecodePress(b)>>
  /\ pureOp' = "read_key_event"
  /\ UNCHANGED <<progVars, chipVars, histVars>>

\* read_event_count: one read of KEY_LCK_EC that returns the byte v, masked
ReadCountValue ==
  /\ pureOp = "none"
  /\ \E v \in 0..255 :
       /\ pureIn' = <<v>>
       /\ pureOut' = <<CountMask(v)>>
  /\ pureOp' = "read_event_count"
  /\ UNCHANGED <<progVars, chipVars, histVars>>

PureNext ==
  \/ Resolve
  \/ CallExtDirKeys
  \/ CallExtDirKeysAgain
  \/ DecodeKeyEvent
  \/ ReadCountValue

PureSpec == PureInit /\ [][PureNext]_vars

(* ------------------------------ claims --------------------------------- *)
\* The symbols of buf in table, for a buf whose codes all have an entry
MapThrough(buf, table) == [i \in 1..Len(buf) |-> table[buf[i]]]

\* C1: after any sequence of press and release events received by scan, a
\* code is in the held list exactly if the last event for it was a press.
C1_HeldIsNetPressed == Range(key_list_buffer) = netPressed

\* C2: no code appears more than once in the held list.
C2_NoDuplicates == Cardinality(Range(key_list_buffer)) = Len(key_list_buffer)

\* A press of a code that is already held arrived, and the code is held once.
C2_Witness ==
  /\ pc = "gpk_count"
  /\ Len(drained) = 2
  /\ drained[1] = 133
  /\ drained[2] = 133
  /\ key_list_buffer = <<5>>

\* C3: a poll during which no new event arrives terminates, also when the
\* event count is nonzero while read_key_event has no event to give.
C3_PollTerminates == (pc = "gpk_count") ~> (pc = "idle" \/ arrived)

\* C4: the resolution runs only after an event count of 0 was read, and by
\* then scan has received every event that was in the FIFO up to that read,
\* each once and oldest first.
C4_ResolveAfterDrain ==
  pc = "gpk_resolve" =>
    /\ poll_count = 0
    /\ drained = SubSeq(seen, 1, exitSeen)
    /\ drained \o fifo = seen

\* The resolution is about to run after a drain of two events, one of which
\* arrived during the poll.
C4_Witness == pc = "gpk_resolve" /\ Len(drained) = 2 /\ arrived

\* C5: the held codes are all mapped through one table: the Fn table if code
\* 3 is held or force_fn, else the Shift table if code 7 is held or
\* force_shift, else the plain table.
C5_LayerSelection ==
  [][(pc = "gpk_resolve" /\ outcome' = "returned") =>
       LET fnCond == 3 \in Range(key_list_buffer) \/ force_fn
           shiftCond == 7 \in Range(key_list_buffer) \/ force_shift
           syms == SubSeq(key_state', Len(key_state') - Len(key_list_buffer) + 1,
                          Len(key_state'))
       IN  /\ fnCond => syms = MapThrough(key_list_buffer, KEYMAP_FN)
           /\ (~fnCond /\ shiftCond) => syms = MapThrough(key_list_buffer, KEYMAP_SHIFT)
           /\ (~fnCond /\ ~shiftCond) => syms = MapThrough(key_list_buffer, KEYMAP)
    ]_vars

\* Fn, Shift and key 5 are held together and the poll returned F1 for key 5.
C5_Witness ==
  /\ pc = "idle"
  /\ outcome = "returned"
  /\ key_list_buffer = <<7, 3, 5>>
  /\ key_state = <<"SHIFT", "FN", "F1">>

\* C6: the returned list is "G0" first if the pin is active, then one symbol
\* per held code in the order of the held list; with nothing held it is
\* empty or just "G0".
C6_ResultShape ==
  (pc = "idle" /\ outcome = "returned") =>
    LET aux == IF G0 = 0 THEN 1 ELSE 0
    IN  /\ Len(key_state) = Len(key_list_buffer) + aux
        /\ (aux = 1 => key_state[1] = "G0")
        /\ \A i \in 1..Len(key_list_buffer) :
             key_state[i + aux] \in {KEYMAP[key_list_buffer[i]],
                                     KEYMAP_SHIFT[key_list_buffer[i]],
                                     KEYMAP_FN[key_list_buffer[i]]}
        /\ (key_list_buffer = <<>> => key_state = IF aux = 1 THEN <<"G0">> ELSE <<>>)

\* The pin was active with two keys held: "G0" and their symbols came back.
C6_Witness ==
  /\ pc = "idle"
  /\ outcome = "returned"
  /\ G0 = 0
  /\ key_list_buffer = <<5, 7>>
  /\ key_state = <<"G0", "!", "SHIFT">>

\* C7: a held code without an entry in the active table never aborts the
\* poll.
C7_UnmappedNeverAborts == outcome # "KeyError"

\* C8: a failed bus transaction during a poll is not propagated to the
\* caller of get_pressed_keys.
C8_BusFailureTolerated == outcome # "OSError"

\* C9: read_key_event reads KEY_STAT, popping one event, exactly if it saw
\* the event flag set and a nonzero event count; otherwise it returns
\* without touching the FIFO, and it never reads an empty FIFO.
C9_PopOnlyWhenFlagAndCount ==
  /\ [](pc = "rke_pop" => (interrupt % 2 = 1 /\ event_count > 0 /\ fifo # <<>>))
  /\ [][/\ Len(fifo') < Len(fifo) => (pc = "rke_pop" /\ fifo' = Tail(fifo))
        /\ (pc = "rke_pop" /\ pc' \in {"rke_clr", "gpk_count"}) => fifo' = Tail(fifo)
        /\ (pc = "rke_int" /\ pc' = "gpk_count") => intStat % 2 = 0
        /\ (pc = "rke_ec" /\ pc' = "gpk_count") => CountMask(Len(fifo)) = 0
       ]_vars

\* read_key_event popped the only event of the FIFO.
C9_Witness == pc = "rke_clr" /\ key_event = 133 /\ fifo = <<>> /\ drained = <<>>

\* C10: whenever read_key_event writes the clear of INT_STAT, the FIFO is
\* empty.
C10_ClearOnlyWhenEmpty == [][(pc = "rke_clr" /\ pc' = "gpk_count") => fifo = <<>>]_vars

\* C11: a call with the arguments of the call before it, which returned,
\* with no event queued since and the pin as before, returns the same list
\* and leaves the held list as it was.
C11_Idempotent ==
  [][(pc = "gpk_resolve" /\ pc' = "idle" /\ repeat /\ G0' = G0) =>
       /\ outcome' = "returned"
       /\ key_state' = key_state
       /\ key_list_buffer' = held0
    ]_vars

\* The second of two equal polls returned with key 5 held under force_fn.
C11_Witness ==
  /\ pc = "idle"
  /\ repeat
  /\ outcome = "returned"
  /\ lastArgs = <<TRUE, FALSE>>
  /\ key_list_buffer = <<5>>
  /\ key_state = <<"F1">>

\* The held list after scan received the events evs, oldest first
RECURSIVE ApplyAll(_, _)
ApplyAll(buf, evs) ==
  IF evs = <<>> THEN buf
  ELSE ApplyAll(ScanApply(buf, DecodeCode(Head(evs)), DecodePress(Head(evs))), Tail(evs))

\* C12: when a poll ends in a failure (bus error, unmapped code), the held
\* list has no duplicate and is the list from before the poll with exactly
\* the events decoded before the failure applied in order.
C12_HeldAfterFailure ==
  [][(pc \in PollPcs /\ outcome' \in {"OSError", "KeyError"}) =>
       /\ Cardinality(Range(key_list_buffer')) = Len(key_list_buffer')
       /\ key_list_buffer' =
            ApplyAll(held0, drained \o (IF pc = "rke_clr" THEN <<key_event>> ELSE <<>>))
    ]_vars

\* C13: when the chip does not answer at its address the construction is
\* aborted: no Keys object comes to exist that accepts get_pressed_keys.
C13_DeviceNotFoundFatal == ~chipPresent => pc # "idle"

\* the last event of code c among the drained bytes is a press
LastIsPress(evs, c) ==
  LET idx == {i \in 1..Len(evs) : DecodeCode(evs[i]) = c}
      last == CHOOSE i \in idx : \A k \in idx : k <= i
  IN  DecodePress(evs[last])

\* C14: a poll that read a count of 2 and whose first read_key_event returned
\* nothing without popping does not hang: unless a later read_key_event fails
\* again, the poll ends, and when its drain loop exits after that single
\* failure both events queued at the time were popped in FIFO order and the
\* held list reflects every drained event.
C14_GlitchOnceStillDrains ==
  /\ [](pc = "gpk_resolve" /\ glitch2 = "once" =>
          /\ Len(drained) >= 2
          /\ SubSeq(drained, 1, 2) = SubSeq(seen, 1, 2)
          /\ \A c \in {DecodeCode(drained[i]) : i \in 1..Len(drained)} :
               (c \in Range(key_list_buffer)) <=> LastIsPress(drained, c))
  /\ (glitch2 = "once") ~> (pc = "idle" \/ glitch2 = "again")

C14_Witness ==
  /\ pc = "gpk_resolve" /\ glitch2 = "once"
  /\ Len(drained) >= 2 /\ SubSeq(drained, 1, 2) = SubSeq(seen, 1, 2)
  /\ Len(key_list_buffer) = 2

C16_FullCoverage ==
  /\ [](/\ DOMAIN KEYMAP \subseteq DOMAIN KEYMAP_SHIFT
        /\ DOMAIN KEYMAP \subseteq DOMAIN KEYMAP_FN
        /\ \A T \in {KEYMAP, KEYMAP_SHIFT, KEYMAP_FN} : T[3] = "FN" /\ T[7] = "SHIFT")
  /\ [][(/\ pc = "gpk_resolve" /\ pc' = "idle"
         /\ Range(key_list_buffer) \subseteq DOMAIN KEYMAP) =>
          /\ outcome' = "returned"
          /\ Len(key_state') \in {Len(key_list_buffer), Len(key_list_buffer) + 1}
       ]_vars

C16_Witness ==
  /\ pc = "idle" /\ outcome = "returned"
  /\ key_list_buffer = <<5, 3>> /\ key_state = <<"F1", "FN">>

\* C17: no register is written before the chip has answered the probe, and
\* none at all when it does not answer; the writes of init_device are, in
\* order, 0x02 := 0xFF, 0x01 := 0x11, 0x1D := 0xFF, 0x1E := 0xFF,
\* 0x1F := 0x0F and last 0x0E := 0x01.
C17_InitOrder ==
  LET order == << <<2, 255>>, <<1, 17>>, <<29, 255>>, <<30, 255>>, <<31, 15>>,
                  <<14, 1>> >>
  IN  /\ Len(wlog) <= 6
      /\ wlog = SubSeq(order, 1, Len(wlog))
      /\ (~chipPresent \/ pc = "ctor") => wlog = <<>>
      /\ hasKeypad => wlog = order

C17_Witness == hasKeypad /\ Len(wlog) = 6 /\ wlog[6] = <<14, 1>> /\ pc = "idle"

\* C18: every byte b of 0..255 read from KEY_STAT decodes to the code
\* b mod 128 and to a press exactly if b >= 128; every byte v of 0..255 read
\* from KEY_LCK_EC gives the count v mod 16, and reading the count neither
\* pops the FIFO nor writes a register.
C18_DecodeAndCount ==
  /\ [](pureOp = "read_key_event" =>
          pureOut = <<pureIn[1] % 128, pureIn[1] >= 128>>)
  /\ [](pureOp = "read_event_count" => pureOut = <<pureIn[1] % 16>>)
  /\ [][(pureOp = "none" /\ pureOp' = "read_event_count") =>
          /\ fifo' = fifo
          /\ intStat' = intStat
          /\ wlog' = wlog
       ]_vars

C18_Witness ==
  /\ pureOp = "read_key_event" /\ pureIn = <<133>> /\ pureOut = <<5, TRUE>>
  /\ fifo = <<133>>

\* C19: whenever the driver is between two of its operations after
\* init_device, a FIFO that holds an event has the event flag (bit 0 of
\* INT_STAT) set.
C19_FlagFollowsFifo ==
  (hasKeypad /\ pc \in {"idle", "gpk_count", "gpk_resolve"}) =>
    (fifo # <<>> => intStat % 2 = 1)

\* C20: a drain iteration whose read_key_event returned the (0, 0) sentinel
\* leaves the held list as it was.
C20_SentinelFrame ==
  [][(pc \in {"rke_int", "rke_ec"} /\ pc' = "gpk_count") =>
       key_list_buffer' = key_list_buffer]_vars

====
